---- MODULE Spec2Model ----
(***************************************************************************)
(* Model of the IoT access-control contracts:                              *)
(*   - PolicyManager   (contracts/PolicyManager.sol)                       *)
(*   - IoTAccessControl (the full contract, unnamed/part_000)              *)
(*   - DeviceRegistry  (contracts/DeviceRegistry.sol)                      *)
(*   - the off-chain Policy document (backend/src/models/Policy.js)        *)
(*                                                                         *)
(* Every external contract function is one atomic action (an EVM           *)
(* transaction either completes or reverts as a whole).  A reverted call   *)
(* changes nothing but lastCall, which records the call and its revert     *)
(* reason.                                                                 *)
(***************************************************************************)
EXTENDS Integers, Sequences, FiniteSets, TLC

\* ---------------------------------------------------------------- bounds
MaxRequests == 1
MaxUsage == 2
MaxLimit == 2
MaxNow == 1800
MaxChains == 1
MaxClock == 2
NumWorkers == 4
JsUsageLimit == 3

\* ------------------------------------------------------- program constants
MaxValidityDuration == 86400
DefaultPriority == 100
SecondsPerDay == 86400
SecondsPerHour == 3600

\* ------------------------------------------------------------ input domains
Admin == "admin"
Addresses == {"admin", "alice", "bob"}
Contract == "IoTAccessControl"
PolicyIds == {"P1", "P2", "P3"}
DeviceIds == {"device1"}
Resources == {"lockset"}
Actions == {"unlock", "read"}
Effects == {"Allow", "Deny"}
Priorities == {50, 100}
TickSteps == {1800}

NoError == ""

\* ------------------------------------------------------------------- state
VARIABLES
    now,                  \* block.timestamp
    \* PolicyManager
    policies,             \* mapping(string => Policy)
    policyExists,         \* mapping(string => bool)
    totalPolicies,
    lastEval,             \* locals of the last evaluatePolicy run
    \* DeviceRegistry
    registeredDevices,    \* mapping(string => bool)
    devices,              \* mapping(string => Device): the status field
    totalDevices,
    \* IoTAccessControl
    totalAccessRequests,
    totalAccessGrants,
    totalAccessDenials,
    accessRequests,       \* mapping(uint256 => AccessRequest), ids 0..total-1
    accessGrants,         \* mapping(string => AccessGrant), stored grants only
    delegationChains,     \* mapping(address => DelegationChain[])
    revokedGrants,        \* mapping(string => bool)
    userAccessCount,
    deviceAccessCount,
    evalLocals,           \* locals of the last _evaluateAccessRequest run
    auditTrail,           \* events emitted / audit-logger calls, in order
    lastCall,             \* the last external call and its outcome
    \* off-chain Policy document store and request workers (Policy.js)
    jsDb,
    jsWorker

pmVars == <<policies, policyExists, totalPolicies, lastEval>>
drVars == <<registeredDevices, devices, totalDevices>>
acVars == <<totalAccessRequests, totalAccessGrants, totalAccessDenials,
            accessRequests, accessGrants, delegationChains, revokedGrants,
            userAccessCount, deviceAccessCount, evalLocals, auditTrail>>
jsVars == <<jsDb, jsWorker>>
vars == <<now, pmVars, drVars, acVars, lastCall, jsVars>>

\* ------------------------------------------------------------------ helpers
SeqToSet(s) == {s[i] : i \in 1..Len(s)}

SetMax(S) == IF S = {} THEN 0 ELSE CHOOSE x \in S : \A y \in S : y <= x

\* a call record: op, sender, arguments, revert reason ("" = success)
Call(op, sender, args, error) ==
    [op |-> op, sender |-> sender, args |-> args, error |-> error]

\* attribute strings are sequences of characters: the contract compares them
\* by keccak256 (sequence equality) and by bytes(...).length (Len)
sRole == <<"r", "o", "l", "e">>
sGuard == <<"g", "u", "a", "r", "d">>

\* ============================================================ PolicyManager
NoTimeConstraint ==
    [startTime |-> 0, endTime |-> 0, allowedDays |-> <<>>,
     startHour |-> 0, endHour |-> 0, isRecurring |-> FALSE]

NoLocationConstraint ==
    [allowedLocations |-> <<>>, deniedLocations |-> <<>>]

\* the zero-initialised storage slot of mapping(string => Policy)
ZeroPolicy ==
    [policyId |-> "", policyType |-> "RBAC", effect |-> "Allow",
     creator |-> "0x0", createdAt |-> 0, priority |-> 0, isActive |-> FALSE,
     subjectConditions |-> <<>>, resourceTypes |-> <<>>,
     allowedActions |-> <<>>,
     timeConstraint |-> NoTimeConstraint,
     locationConstraint |-> NoLocationConstraint,
     maxUsageCount |-> 0, currentUsageCount |-> 0,
     userUsageCount |-> [a \in Addresses |-> 0]]

\* _isActionAllowed
isActionAllowed(allowedActions, action) ==
    IF Len(allowedActions) = 0 THEN TRUE
    ELSE \E i \in 1..Len(allowedActions) : allowedActions[i] = action

\* _evaluateAttributeCondition
evaluateAttributeCondition(condition, actualValue) ==
    IF condition.operator = "Equal" THEN actualValue = condition.expectedValue
    ELSE IF condition.operator = "NotEqual"
         THEN actualValue # condition.expectedValue
    ELSE IF condition.operator = "Contains"
         THEN Len(actualValue) >= Len(condition.expectedValue)
    ELSE TRUE

\* _evaluateSubjectConditions: subjectAttributes is read as alternating
\* name/value entries; the first entry at an even offset whose name equals the
\* condition's attribute decides the condition
evaluateSubjectConditions(policy, subject, subjectAttributes) ==
    \A i \in 1..Len(policy.subjectConditions) :
        LET condition == policy.subjectConditions[i]
            hits == {j \in 1..Len(subjectAttributes) :
                        /\ j % 2 = 1
                        /\ j + 1 <= Len(subjectAttributes)
                        /\ subjectAttributes[j] = condition.attributeName}
        IN  /\ hits # {}
            /\ LET j == CHOOSE k \in hits : \A m \in hits : k <= m
               IN  evaluateAttributeCondition(condition, subjectAttributes[j + 1])

\* _evaluateTimeConstraints at block.timestamp = t
evaluateTimeConstraints(constraint, t) ==
    IF constraint.startTime = 0 /\ constraint.endTime = 0 THEN TRUE
    ELSE IF ~constraint.isRecurring
         THEN t >= constraint.startTime /\ t <= constraint.endTime
    ELSE LET dayOfWeek == ((t \div SecondsPerDay) + 4) % 7
             dayAllowed == \E i \in 1..Len(constraint.allowedDays) :
                              constraint.allowedDays[i] = dayOfWeek
             currentHour == (t % SecondsPerDay) \div SecondsPerHour
             currentHourMinute == (currentHour * 100) % 65536
         IN  /\ dayAllowed
             /\ currentHourMinute >= constraint.startHour
             /\ currentHourMinute <= constraint.endHour

\* _evaluateLocationConstraints (placeholder in the contract: always true)
evaluateLocationConstraints(constraint, currentLocation) ==
    IF Len(constraint.allowedLocations) = 0 /\ Len(constraint.deniedLocations) = 0
    THEN TRUE
    ELSE TRUE

\* the usage-limit check that opens _evaluateSinglePolicy
UsageExceeded(policy) ==
    policy.maxUsageCount > 0 /\ policy.currentUsageCount >= policy.maxUsageCount

\* _evaluateSinglePolicy
evaluateSinglePolicy(policy, subject, resourceId, action, subjectAttributes, t) ==
    IF UsageExceeded(policy) THEN FALSE
    ELSE IF ~isActionAllowed(policy.allowedActions, action) THEN FALSE
    ELSE IF ~evaluateSubjectConditions(policy, subject, subjectAttributes) THEN FALSE
    ELSE IF ~evaluateTimeConstraints(policy.timeConstraint, t) THEN FALSE
    ELSE IF ~evaluateLocationConstraints(policy.locationConstraint, <<>>) THEN FALSE
    ELSE TRUE

\* the locals of evaluatePolicy before the loop
EvalStart(pol) ==
    [pol |-> pol, matched |-> <<>>,
     hasAllowPolicy |-> FALSE, hasDenyPolicy |-> FALSE,
     highestAllowPriority |-> 0, highestDenyPriority |-> 0]

\* the priority tracking of a matched policy (evaluatePolicy, if / else if)
TrackPriority_LastWins(st, policy) ==
    IF policy.effect = "Allow"
    THEN [st EXCEPT !.hasAllowPolicy = TRUE,
                    !.highestAllowPriority = policy.priority]
    ELSE [st EXCEPT !.hasDenyPolicy = TRUE,
                    !.highestDenyPriority = policy.priority]

TrackPriority(st, policy) ==
    IF policy.effect = "Allow" /\ policy.priority >= st.highestAllowPriority
    THEN [st EXCEPT !.hasAllowPolicy = TRUE,
                    !.highestAllowPriority = policy.priority]
    ELSE IF policy.effect = "Deny" /\ policy.priority >= st.highestDenyPriority
    THEN [st EXCEPT !.hasDenyPolicy = TRUE,
                    !.highestDenyPriority = policy.priority]
    ELSE st

\* the usage-count update of a matched policy
CountUsage(policy, subject) ==
    [policy EXCEPT !.currentUsageCount = @ + 1,
                   !.userUsageCount[subject] = @ + 1]

\* one iteration of the loop of evaluatePolicy
EvalStep_CountsAttempts(st, policyId, subject, resourceId, action, subjectAttributes, t) ==
    LET policy == st.pol[policyId]
    IN  IF ~policy.isActive THEN st
        ELSE IF evaluateSinglePolicy(policy, subject, resourceId, action,
                                     subjectAttributes, t)
        THEN LET tracked == TrackPriority(st, policy)
             IN  [tracked EXCEPT
                     !.matched = Append(@, policyId),
                     !.pol[policyId] = CountUsage(policy, subject)]
        ELSE [st EXCEPT !.pol[policyId] = CountUsage(policy, subject)]

EvalStep(st, policyId, subject, resourceId, action, subjectAttributes, t) ==
    LET policy == st.pol[policyId]
    IN  IF ~policy.isActive THEN st
        ELSE IF evaluateSinglePolicy(policy, subject, resourceId, action,
                                     subjectAttributes, t)
        THEN LET tracked == TrackPriority(st, policy)
             IN  [tracked EXCEPT
                     !.matched = Append(@, policyId),
                     !.pol[policyId] = CountUsage(policy, subject)]
        ELSE st

RECURSIVE EvalLoop(_, _, _, _, _, _, _, _)
EvalLoop(applicablePolicies, i, st, subject, resourceId, action, subjectAttributes, t) ==
    IF i > Len(applicablePolicies) THEN st
    ELSE EvalLoop(applicablePolicies, i + 1,
                  EvalStep(st, applicablePolicies[i], subject, resourceId,
                           action, subjectAttributes, t),
                  subject, resourceId, action, subjectAttributes, t)

\* the return statement of evaluatePolicy: deny takes precedence at the same
\* or a higher priority
FinalDecision_StrictDeny(st) ==
    IF st.hasDenyPolicy /\ st.highestDenyPriority > st.highestAllowPriority
    THEN FALSE
    ELSE st.hasAllowPolicy

FinalDecision_DefaultAllow(st) ==
    IF st.hasDenyPolicy /\ st.highestDenyPriority >= st.highestAllowPriority
    THEN FALSE
    ELSE TRUE

FinalDecision_AnyDeny(st) ==
    IF st.hasDenyPolicy THEN FALSE ELSE st.hasAllowPolicy

FinalDecision(st) ==
    IF st.hasDenyPolicy /\ st.highestDenyPriority >= st.highestAllowPriority
    THEN FALSE
    ELSE st.hasAllowPolicy

\* evaluatePolicy run over a given candidate array: the locals after the loop
\* together with the returned decision
evaluatePolicy(applicablePolicies, subject, resourceId, resource, action, subjectAttributes, t) ==
    LET st == EvalLoop(applicablePolicies, 1, EvalStart(policies), subject,
                       resourceId, action, subjectAttributes, t)
    IN  [pol |-> st.pol,
         locals |-> [applicable |-> applicablePolicies, subject |-> subject,
                     action |-> action, matched |-> st.matched,
                     hasAllowPolicy |-> st.hasAllowPolicy,
                     hasDenyPolicy |-> st.hasDenyPolicy,
                     highestAllowPriority |-> st.highestAllowPriority,
                     highestDenyPriority |-> st.highestDenyPriority,
                     result |-> FinalDecision(st)],
         result |-> FinalDecision(st)]

\* _getApplicablePolicies as written: the candidate array is allocated with
\* totalPolicies slots, nothing is copied into it and its first count = 0
\* entries are returned
getApplicablePolicies(resource, action) ==
    LET count == 0
    IN  SubSeq([i \in 1..totalPolicies |-> ""], 1, count)

\* candidate arrays an index over the stored policies can return: any array
\* of distinct stored policy ids (the empty array included)
RECURSIVE Arrangements(_)
Arrangements(S) ==
    IF S = {} THEN {<<>>}
    ELSE UNION {{<<x>> \o a : a \in Arrangements(S \ {x})} : x \in S}

AllArrays == UNION {Arrangements(S) : S \in SUBSET PolicyIds}

CandidateArrays ==
    {a \in AllArrays : \A i \in 1..Len(a) : policyExists[a[i]]}

\* --------------------------------------------------- PolicyManager: actions
createABACPolicyError(policyId, subjectAttrNames, subjectAttrValues, subjectAttrOperators) ==
    IF policyExists[policyId] THEN "PolicyManager: Policy already exists"
    ELSE IF policyId = "" THEN "PolicyManager: Policy ID cannot be empty"
    ELSE IF ~(Len(subjectAttrNames) = Len(subjectAttrValues)
              /\ Len(subjectAttrValues) = Len(subjectAttrOperators))
         THEN "PolicyManager: Subject attributes mismatch"
    ELSE NoError

createABACPolicy(sender, policyId, effect, priority, subjectAttrNames, subjectAttrValues, subjectAttrOperators, resourceTypes, allowedActions) ==
    LET err == createABACPolicyError(policyId, subjectAttrNames,
                                     subjectAttrValues, subjectAttrOperators)
        policy == [policies[policyId] EXCEPT
                      !.policyId = policyId,
                      !.policyType = "ABAC",
                      !.effect = effect,
                      !.creator = sender,
                      !.createdAt = now,
                      !.priority = priority,
                      !.isActive = TRUE,
                      !.resourceTypes = resourceTypes,
                      !.allowedActions = allowedActions,
                      !.maxUsageCount = 0,
                      !.currentUsageCount = 0,
                      !.subjectConditions = @ \o
                          [i \in 1..Len(subjectAttrNames) |->
                              [attributeName |-> subjectAttrNames[i],
                               expectedValue |-> subjectAttrValues[i],
                               operator |-> subjectAttrOperators[i]]]]
    IN  /\ lastCall' = Call("createABACPolicy", sender, <<policyId>>, err)
        /\ IF err # NoError
           THEN UNCHANGED <<policies, policyExists, totalPolicies>>
           ELSE /\ policies' = [policies EXCEPT ![policyId] = policy]
                /\ policyExists' = [policyExists EXCEPT ![policyId] = TRUE]
                /\ totalPolicies' = totalPolicies + 1
        /\ UNCHANGED <<now, lastEval, drVars, acVars, jsVars>>

createTimeBasedPolicyError(policyId, startTime, endTime, isRecurring) ==
    IF policyExists[policyId] THEN "PolicyManager: Policy already exists"
    ELSE IF ~(startTime < endTime \/ isRecurring)
         THEN "PolicyManager: Invalid time range"
    ELSE NoError

createTimeBasedPolicy(sender, policyId, effect, startTime, endTime, allowedDays, startHour, endHour, isRecurring, allowedActions) ==
    LET err == createTimeBasedPolicyError(policyId, startTime, endTime,
                                          isRecurring)
        policy == [policies[policyId] EXCEPT
                      !.policyId = policyId,
                      !.policyType = "TimeBased",
                      !.effect = effect,
                      !.creator = sender,
                      !.createdAt = now,
                      !.priority = DefaultPriority,
                      !.isActive = TRUE,
                      !.allowedActions = allowedActions,
                      !.timeConstraint =
                          [startTime |-> startTime, endTime |-> endTime,
                           allowedDays |-> allowedDays,
                           startHour |-> startHour, endHour |-> endHour,
                           isRecurring |-> isRecurring]]
    IN  /\ lastCall' = Call("createTimeBasedPolicy", sender, <<policyId>>, err)
        /\ IF err # NoError
           THEN UNCHANGED <<policies, policyExists, totalPolicies>>
           ELSE /\ policies' = [policies EXCEPT ![policyId] = policy]
                /\ policyExists' = [policyExists EXCEPT ![policyId] = TRUE]
                /\ totalPolicies' = totalPolicies + 1
        /\ UNCHANGED <<now, lastEval, drVars, acVars, jsVars>>

createLocationBasedPolicyError(policyId) ==
    IF policyExists[policyId] THEN "PolicyManager: Policy already exists"
    ELSE NoError

createLocationBasedPolicy(sender, policyId, effect, allowedLocations, deniedLocations, allowedActions) ==
    LET err == createLocationBasedPolicyError(policyId)
        policy == [policies[policyId] EXCEPT
                      !.policyId = policyId,
                      !.policyType = "LocationBased",
                      !.effect = effect,
                      !.creator = sender,
                      !.createdAt = now,
                      !.priority = DefaultPriority,
                      !.isActive = TRUE,
                      !.allowedActions = allowedActions,
                      !.locationConstraint =
                          [allowedLocations |-> allowedLocations,
                           deniedLocations |-> deniedLocations]]
    IN  /\ lastCall' = Call("createLocationBasedPolicy", sender, <<policyId>>,
                            err)
        /\ IF err # NoError
           THEN UNCHANGED <<policies, policyExists, totalPolicies>>
           ELSE /\ policies' = [policies EXCEPT ![policyId] = policy]
                /\ policyExists' = [policyExists EXCEPT ![policyId] = TRUE]
                /\ totalPolicies' = totalPolicies + 1
        /\ UNCHANGED <<now, lastEval, drVars, acVars, jsVars>>

\* the error class of a revert reason of PolicyManager
PolicyErrorKind(reason) ==
    IF reason = NoError THEN "ok"
    ELSE IF reason = "PolicyManager: Policy already exists" THEN "DuplicateId"
    ELSE IF reason = "PolicyManager: Policy does not exist" THEN "NotFound"
    ELSE IF reason = "PolicyManager: Only policy creator or admin can modify"
    THEN "Unauthorized"
    ELSE "InvalidPolicy"

policyModifierError_NoCreatorCheck(sender, policyId) ==
    IF ~policyExists[policyId] THEN "PolicyManager: Policy does not exist"
    ELSE NoError

\* modifiers policyExists_ and onlyPolicyCreator
policyModifierError(sender, policyId) ==
    IF ~policyExists[policyId] THEN "PolicyManager: Policy does not exist"
    ELSE IF ~(policies[policyId].creator = sender \/ sender = Admin)
         THEN "PolicyManager: Only policy creator or admin can modify"
    ELSE NoError

updatePolicyStatus(sender, policyId, isActive) ==
    LET err == policyModifierError(sender, policyId)
    IN  /\ lastCall' = Call("updatePolicyStatus", sender, <<policyId>>, err)
        /\ policies' = IF err # NoError THEN policies
                       ELSE [policies EXCEPT ![policyId].isActive = isActive]
        /\ UNCHANGED <<now, policyExists, totalPolicies, lastEval, drVars,
                       acVars, jsVars>>

setPolicyUsageLimit(sender, policyId, maxUsageCount) ==
    LET err == policyModifierError(sender, policyId)
    IN  /\ lastCall' = Call("setPolicyUsageLimit", sender, <<policyId>>, err)
        /\ policies' = IF err # NoError THEN policies
                       ELSE [policies EXCEPT
                                ![policyId].maxUsageCount = maxUsageCount]
        /\ UNCHANGED <<now, policyExists, totalPolicies, lastEval, drVars,
                       acVars, jsVars>>

\* a direct call of the external function evaluatePolicy
evaluatePolicyCall(sender, applicablePolicies, subject, resourceId, resource, action, subjectAttributes) ==
    LET ev == evaluatePolicy(applicablePolicies, subject, resourceId, resource,
                             action, subjectAttributes, now)
    IN  /\ policies' = ev.pol
        /\ lastEval' = ev.locals
        /\ lastCall' = Call("evaluatePolicy", sender, <<subjectAttributes>>,
                            NoError)
        /\ UNCHANGED <<now, policyExists, totalPolicies, drVars, acVars, jsVars>>

\* =========================================================== DeviceRegistry
registerDevice(sender, deviceId) ==
    LET err == IF registeredDevices[deviceId] THEN "Device already registered"
               ELSE NoError
    IN  /\ lastCall' = Call("registerDevice", sender, <<deviceId>>, err)
        /\ IF err # NoError
           THEN UNCHANGED drVars
           ELSE /\ devices' = [devices EXCEPT ![deviceId] = "Active"]
                /\ registeredDevices' =
                       [registeredDevices EXCEPT ![deviceId] = TRUE]
                /\ totalDevices' = totalDevices + 1
        /\ UNCHANGED <<now, pmVars, acVars, jsVars>>

\* the registry's read interface used by IoTAccessControl
isDeviceRegistered(deviceId) == registeredDevices[deviceId]

isDeviceActive(deviceId) == devices[deviceId] = "Active"

\* ========================================================= IoTAccessControl
\* Strings.toString: the decimal digits of value, most significant first
RECURSIVE toString(_)
toString(value) ==
    LET digit(d) == <<"0", "1", "2", "3", "4", "5", "6", "7", "8", "9">>[d + 1]
    IN  IF value < 10 THEN <<digit(value)>>
        ELSE toString(value \div 10) \o <<digit(value % 10)>>

\* _generateGrantId at block.timestamp = t
generateGrantId_NoRequestId(requestId, t) ==
    <<"grant_">> \o toString(t)

generateGrantId(requestId, t) ==
    <<"grant_">> \o toString(requestId) \o <<"_">> \o toString(t)

\* _checkDelegationChain at block.timestamp = t
\* the inner loop of _checkDelegationChain over permissions[j..]
RECURSIVE permissionListed(_, _, _)
permissionListed(permissions, j, action) ==
    IF j > Len(permissions) THEN FALSE
    ELSE IF permissions[j] = action THEN TRUE
    ELSE permissionListed(permissions, j + 1, action)

\* the outer loop of _checkDelegationChain over delegations[i..]
RECURSIVE checkDelegationsFrom(_, _, _, _)
checkDelegationsFrom(delegations, i, action, t) ==
    IF i > Len(delegations) THEN FALSE
    ELSE IF /\ delegations[i].isActive
            /\ delegations[i].validUntil > t
            /\ permissionListed(delegations[i].permissions, 1, action)
         THEN TRUE
         ELSE checkDelegationsFrom(delegations, i + 1, action, t)

checkDelegationChain_IgnoresExpiry(user, action, t) ==
    \E i \in 1..Len(delegationChains[user]) :
        /\ delegationChains[user][i].isActive
        /\ action \in SeqToSet(delegationChains[user][i].permissions)

checkDelegationChain_Transitive(user, action, t) ==
    \/ checkDelegationsFrom(delegationChains[user], 1, action, t)
    \/ \E i \in 1..Len(delegationChains[user]) :
           /\ delegationChains[user][i].isActive
           /\ delegationChains[user][i].validUntil > t
           /\ checkDelegationsFrom(
                  delegationChains[delegationChains[user][i].delegator],
                  1, action, t)

checkDelegationChain(user, action, t) ==
    checkDelegationsFrom(delegationChains[user], 1, action, t)

\* PolicyManager.checkTimeConstraints (simplified in the contract: true)
checkTimeConstraints(user, action, timestamp) == TRUE

\* modifier onlyAuthorizedDevice followed by the require statements
requestAccessError_NoUpperBound(deviceId, attributeKeys, attributeValues, validityDuration) ==
    IF ~isDeviceRegistered(deviceId)
    THEN "IoTAccessControl: Device not registered"
    ELSE IF ~isDeviceActive(deviceId)
    THEN "IoTAccessControl: Device not active"
    ELSE IF Len(attributeKeys) # Len(attributeValues)
    THEN "IoTAccessControl: Attributes mismatch"
    ELSE IF ~(validityDuration > 0)
    THEN "IoTAccessControl: Invalid validity duration"
    ELSE NoError

requestAccessError_NoActiveCheck(deviceId, attributeKeys, attributeValues, validityDuration) ==
    IF ~isDeviceRegistered(deviceId)
    THEN "IoTAccessControl: Device not registered"
    ELSE IF Len(attributeKeys) # Len(attributeValues)
    THEN "IoTAccessControl: Attributes mismatch"
    ELSE IF ~(validityDuration > 0 /\ validityDuration <= MaxValidityDuration)
    THEN "IoTAccessControl: Invalid validity duration"
    ELSE NoError

requestAccessError(deviceId, attributeKeys, attributeValues, validityDuration) ==
    IF ~isDeviceRegistered(deviceId)
    THEN "IoTAccessControl: Device not registered"
    ELSE IF ~isDeviceActive(deviceId)
    THEN "IoTAccessControl: Device not active"
    ELSE IF Len(attributeKeys) # Len(attributeValues)
    THEN "IoTAccessControl: Attributes mismatch"
    ELSE IF ~(validityDuration > 0 /\ validityDuration <= MaxValidityDuration)
    THEN "IoTAccessControl: Invalid validity duration"
    ELSE NoError

\* request.attributes after the storing loop: a later duplicate key overwrites
StoredAttributes(attributeKeys, attributeValues) ==
    [k \in SeqToSet(attributeKeys) |->
        attributeValues[CHOOSE i \in 1..Len(attributeKeys) :
                            /\ attributeKeys[i] = k
                            /\ \A j \in 1..Len(attributeKeys) :
                                   attributeKeys[j] = k => j <= i]]

\* the request record written by requestAccess before it is evaluated
NewRequest(sender, deviceId, resource, action, attributeKeys, attributeValues, validityDuration) ==
    [requester |-> sender, deviceId |-> deviceId, resource |-> resource,
     action |-> action, timestamp |-> now,
     expirationTime |-> now + validityDuration, isActive |-> TRUE,
     attributeKeys |-> attributeKeys,
     attributes |-> StoredAttributes(attributeKeys, attributeValues)]

\* the condition of the if statement of _evaluateAccessRequest
GrantCondition_PolicyOnly(policyResult, devicePermission, hasDelegation, timeConstraint) ==
    policyResult /\ timeConstraint

GrantCondition(policyResult, devicePermission, hasDelegation, timeConstraint) ==
    policyResult /\ (devicePermission \/ hasDelegation) /\ timeConstraint

\* the grant record written by _grantAccess
NewGrant_NoExpiry(grantId, request) ==
    [grantId |-> grantId, grantee |-> request.requester,
     deviceId |-> request.deviceId, resource |-> request.resource,
     action |-> request.action, grantedAt |-> now,
     validUntil |-> request.timestamp, isRevoked |-> FALSE,
     grantedBy |-> Contract,
     conditions |-> "Standard ABAC policy evaluation"]

NewGrant(grantId, request) ==
    [grantId |-> grantId, grantee |-> request.requester,
     deviceId |-> request.deviceId, resource |-> request.resource,
     action |-> request.action, grantedAt |-> now,
     validUntil |-> request.expirationTime, isRevoked |-> FALSE,
     grantedBy |-> Contract,
     conditions |-> "Standard ABAC policy evaluation"]

Event(kind, ref, actor) ==
    [kind |-> kind, ref |-> ref, actor |-> actor, timestamp |-> now]

\* _grantAccess
grantAccess_NoCount(requestId, request) ==
    LET grantId == generateGrantId(requestId, now)
    IN  /\ accessRequests' = accessRequests @@ (requestId :> request)
        /\ accessGrants' = [g \in DOMAIN accessGrants \cup {grantId} |->
                              IF g = grantId THEN NewGrant(grantId, request)
                              ELSE accessGrants[g]]
        /\ userAccessCount' =
               [userAccessCount EXCEPT ![request.requester] = @ + 1]
        /\ deviceAccessCount' =
               [deviceAccessCount EXCEPT ![request.deviceId] = @ + 1]
        /\ auditTrail' = auditTrail \o
               <<Event("AccessRequested", toString(requestId), request.requester),
                 Event("logAccessGrant", grantId, request.requester),
                 Event("AccessGranted", grantId, request.requester)>>
        /\ UNCHANGED <<totalAccessGrants, totalAccessDenials>>

grantAccess(requestId, request) ==
    LET grantId == generateGrantId(requestId, now)
    IN  /\ accessRequests' = accessRequests @@ (requestId :> request)
        /\ accessGrants' = [g \in DOMAIN accessGrants \cup {grantId} |->
                              IF g = grantId THEN NewGrant(grantId, request)
                              ELSE accessGrants[g]]
        /\ totalAccessGrants' = totalAccessGrants + 1
        /\ userAccessCount' =
               [userAccessCount EXCEPT ![request.requester] = @ + 1]
        /\ deviceAccessCount' =
               [deviceAccessCount EXCEPT ![request.deviceId] = @ + 1]
        /\ auditTrail' = auditTrail \o
               <<Event("AccessRequested", toString(requestId), request.requester),
                 Event("logAccessGrant", grantId, request.requester),
                 Event("AccessGranted", grantId, request.requester)>>
        /\ UNCHANGED totalAccessDenials

\* the request record after _denyAccess
DeniedRequest_StillActive(request) == request

DeniedRequest(request) == [request EXCEPT !.isActive = FALSE]

\* _denyAccess
denyAccess_NoAttemptEvent(requestId, request) ==
    /\ accessRequests' = accessRequests @@ (requestId :> DeniedRequest(request))
    /\ totalAccessDenials' = totalAccessDenials + 1
    /\ auditTrail' = auditTrail \o
           <<Event("AccessRequested", toString(requestId), request.requester),
             Event("logAccessDenial", toString(requestId), request.requester),
             Event("AccessDenied", toString(requestId), request.requester)>>
    /\ UNCHANGED <<accessGrants, totalAccessGrants, userAccessCount,
                   deviceAccessCount>>

denyAccess(requestId, request) ==
    /\ accessRequests' = accessRequests @@ (requestId :> DeniedRequest(request))
    /\ totalAccessDenials' = totalAccessDenials + 1
    /\ auditTrail' = auditTrail \o
           <<Event("AccessRequested", toString(requestId), request.requester),
             Event("logAccessDenial", toString(requestId), request.requester),
             Event("AccessDenied", toString(requestId), request.requester),
             Event("UnauthorizedAccessAttempt", toString(requestId),
                   request.requester)>>
    /\ UNCHANGED <<accessGrants, totalAccessGrants, userAccessCount,
                   deviceAccessCount>>

\* requestAccess with _evaluateAccessRequest; devicePermission is the answer of
\* deviceRegistry.hasDevicePermission, applicablePolicies the candidate array
\* evaluatePolicy works on
requestAccess(sender, deviceId, resource, action, attributeKeys, attributeValues, validityDuration, devicePermission, applicablePolicies) ==
    LET err == requestAccessError(deviceId, attributeKeys, attributeValues,
                                  validityDuration)
        requestId == totalAccessRequests
        request == NewRequest(sender, deviceId, resource, action,
                              attributeKeys, attributeValues, validityDuration)
        hasDelegation == checkDelegationChain(sender, action, now)
        ev == evaluatePolicy(applicablePolicies, sender, deviceId, resource,
                             action, attributeKeys, now)
        timeConstraint == checkTimeConstraints(sender, action, now)
    IN  /\ lastCall' = Call("requestAccess", sender,
                            <<deviceId, validityDuration>>, err)
        /\ IF err # NoError
           THEN UNCHANGED <<pmVars, acVars>>
           ELSE /\ totalAccessRequests' = totalAccessRequests + 1
                /\ policies' = ev.pol
                /\ lastEval' = ev.locals
                /\ evalLocals' = [requestId |-> requestId,
                                  hasDelegation |-> hasDelegation,
                                  policyResult |-> ev.result,
                                  devicePermission |-> devicePermission,
                                  timeConstraint |-> timeConstraint]
                /\ IF GrantCondition(ev.result, devicePermission,
                                     hasDelegation, timeConstraint)
                   THEN grantAccess(requestId, request)
                   ELSE denyAccess(requestId, request)
                /\ UNCHANGED <<policyExists, totalPolicies, delegationChains,
                               revokedGrants>>
        /\ UNCHANGED <<now, drVars, jsVars>>

\* modifier onlyValidGrant followed by the authorisation check of revokeAccess
revokeAccessError_NoExpiryCheck(sender, grantId) ==
    IF grantId \notin DOMAIN accessGrants
    THEN "IoTAccessControl: Grant does not exist"
    ELSE IF accessGrants[grantId].isRevoked
    THEN "IoTAccessControl: Grant is revoked"
    ELSE IF ~(sender = Admin \/ sender = accessGrants[grantId].grantee
              \/ sender = accessGrants[grantId].grantedBy)
    THEN "IoTAccessControl: Unauthorized revocation attempt"
    ELSE NoError

revokeAccessError_AnyCaller(sender, grantId) ==
    IF grantId \notin DOMAIN accessGrants
    THEN "IoTAccessControl: Grant does not exist"
    ELSE IF accessGrants[grantId].isRevoked
    THEN "IoTAccessControl: Grant is revoked"
    ELSE IF ~(accessGrants[grantId].validUntil > now)
    THEN "IoTAccessControl: Grant expired"
    ELSE NoError

revokeAccessError(sender, grantId) ==
    IF grantId \notin DOMAIN accessGrants
    THEN "IoTAccessControl: Grant does not exist"
    ELSE IF accessGrants[grantId].isRevoked
    THEN "IoTAccessControl: Grant is revoked"
    ELSE IF ~(accessGrants[grantId].validUntil > now)
    THEN "IoTAccessControl: Grant expired"
    ELSE IF ~(sender = Admin \/ sender = accessGrants[grantId].grantee
              \/ sender = accessGrants[grantId].grantedBy)
    THEN "IoTAccessControl: Unauthorized revocation attempt"
    ELSE NoError

revokeAccess(sender, grantId, reason) ==
    LET err == revokeAccessError(sender, grantId)
    IN  /\ lastCall' = Call("revokeAccess", sender, <<grantId>>, err)
        /\ IF err # NoError
           THEN UNCHANGED <<accessGrants, revokedGrants, auditTrail>>
           ELSE /\ accessGrants' = [accessGrants EXCEPT ![grantId].isRevoked = TRUE]
                /\ revokedGrants' = revokedGrants \cup {grantId}
                /\ auditTrail' = auditTrail \o
                       <<Event("logAccessRevocation", grantId, sender),
                         Event("AccessRevoked", grantId, sender)>>
        /\ UNCHANGED <<now, pmVars, drVars, totalAccessRequests,
                       totalAccessGrants, totalAccessDenials, accessRequests,
                       delegationChains, userAccessCount, deviceAccessCount,
                       evalLocals, jsVars>>

\* modifier validTimeframe followed by the require statements
createDelegationError_NoDepthCheck(sender, delegatee, permissions, validityDuration, maxDepth) ==
    IF ~(now + validityDuration > now)
    THEN "IoTAccessControl: Invalid timeframe"
    ELSE IF delegatee = sender
    THEN "IoTAccessControl: Cannot delegate to self"
    ELSE IF ~(Len(permissions) > 0)
    THEN "IoTAccessControl: No permissions specified"
    ELSE NoError

createDelegationError(sender, delegatee, permissions, validityDuration, maxDepth) ==
    IF ~(now + validityDuration > now)
    THEN "IoTAccessControl: Invalid timeframe"
    ELSE IF delegatee = sender
    THEN "IoTAccessControl: Cannot delegate to self"
    ELSE IF ~(Len(permissions) > 0)
    THEN "IoTAccessControl: No permissions specified"
    ELSE IF ~(maxDepth > 0 /\ maxDepth <= 5)
    THEN "IoTAccessControl: Invalid delegation depth"
    ELSE NoError

createDelegation(sender, delegatee, permissions, validityDuration, maxDepth) ==
    LET err == createDelegationError(sender, delegatee, permissions,
                                     validityDuration, maxDepth)
        delegation == [delegator |-> sender, delegatee |-> delegatee,
                       permissions |-> permissions,
                       validUntil |-> now + validityDuration,
                       maxDelegationDepth |-> maxDepth, isActive |-> TRUE]
    IN  /\ lastCall' = Call("createDelegation", sender,
                        <<delegatee, permissions, validityDuration, maxDepth>>,
                        err)
        /\ IF err # NoError
           THEN UNCHANGED <<delegationChains, auditTrail>>
           ELSE /\ delegationChains' =
                       [delegationChains EXCEPT ![delegatee] = Append(@, delegation)]
                /\ auditTrail' = Append(auditTrail,
                       Event("DelegationCreated", <<delegatee>>, sender))
        /\ UNCHANGED <<now, pmVars, drVars, totalAccessRequests,
                       totalAccessGrants, totalAccessDenials, accessRequests,
                       accessGrants, revokedGrants, userAccessCount,
                       deviceAccessCount, evalLocals, jsVars>>

\* the revert of an auditLogger call (logAccessGrant, logAccessDenial), which
\* requestAccess does not catch
AuditReverted == "AuditLogger: call reverted"

\* requestAccess when the auditLogger call of _grantAccess or _denyAccess
\* reverts: the revert propagates and the transaction is undone
requestAccessAuditReverts(sender, deviceId, attributeKeys, attributeValues, validityDuration) ==
    /\ requestAccessError(deviceId, attributeKeys, attributeValues,
                          validityDuration) = NoError
    /\ lastCall' = Call("requestAccess", sender,
                        <<deviceId, validityDuration>>, AuditReverted)
    /\ UNCHANGED <<now, pmVars, drVars, acVars, jsVars>>

\* the registry taking a registered device out of service
deactivateDevice(sender, deviceId) ==
    /\ registeredDevices[deviceId]
    /\ devices' = [devices EXCEPT ![deviceId] = "Inactive"]
    /\ lastCall' = Call("deactivateDevice", sender, <<deviceId>>, NoError)
    /\ UNCHANGED <<now, pmVars, registeredDevices, totalDevices, acVars, jsVars>>

\* the error class of a revert reason of IoTAccessControl
ErrorKind(reason) ==
    IF reason = NoError THEN "ok"
    ELSE IF reason \in {"IoTAccessControl: Device not registered",
                        "IoTAccessControl: Grant does not exist"}
    THEN "NotFound"
    ELSE IF reason \in {"IoTAccessControl: Device not active",
                        "IoTAccessControl: Unauthorized revocation attempt"}
    THEN "Unauthorized"
    ELSE IF reason = "IoTAccessControl: Grant is revoked" THEN "AlreadyRevoked"
    ELSE IF reason = "IoTAccessControl: Grant expired" THEN "Expired"
    ELSE IF reason = AuditReverted THEN "CollaboratorUnavailable"
    ELSE "InvalidInput"

\* isAccessGrantValid at block.timestamp = t
isAccessGrantValid_IgnoresRevoked(grantId, t) ==
    /\ grantId \in DOMAIN accessGrants
    /\ accessGrants[grantId].validUntil > t

isAccessGrantValid(grantId, t) ==
    /\ grantId \in DOMAIN accessGrants
    /\ ~accessGrants[grantId].isRevoked
    /\ accessGrants[grantId].validUntil > t

\* getAccessStats (view)
getAccessStats ==
    [totalRequests |-> totalAccessRequests,
     totalGrants |-> totalAccessGrants,
     totalDenials |-> totalAccessDenials,
     successRate |-> IF totalAccessRequests > 0
                     THEN (totalAccessGrants * 100) \div totalAccessRequests
                     ELSE 0]

\* the passing of block time
Tick(d) ==
    /\ now + d <= MaxNow
    /\ now' = now + d
    /\ UNCHANGED <<pmVars, drVars, acVars, lastCall, jsVars>>

\* block time jumping to a later instant t
AdvanceTo(t) ==
    /\ t > now
    /\ now' = t
    /\ UNCHANGED <<pmVars, drVars, acVars, lastCall, jsVars>>

\* ============================================= Policy document (Policy.js)
\* Absent (undefined) numbers and dates are modelled as -1, absent strings
\* as "".
Undefined == -1

\* the usage-limit check of evaluateRule
jsUsageLimitExceeded(rule) ==
    /\ rule.conditions.maxUsageCount # Undefined
    /\ rule.conditions.maxUsageCount # 0
    /\ rule.conditions.currentUsageCount >= rule.conditions.maxUsageCount

\* policySchema.methods.evaluateRule, on document doc at time t
evaluateRule(doc, rule, subject, resource, action, context, t) ==
    LET tc == rule.environment.timeConstraints
        lc == rule.environment.locationConstraints
        currentHour == (t % SecondsPerDay) \div SecondsPerHour
        currentDay == ((t \div SecondsPerDay) + 4) % 7
        allowed == doc.effect = "Allow"
        Result(m, a, r) == [matched |-> m, allowed |-> a, reason |-> r]
    IN  IF rule.action # action THEN Result(FALSE, FALSE, "")
        ELSE IF /\ Len(rule.subject.roles) > 0
                /\ ~\E i \in 1..Len(subject.roles) :
                       subject.roles[i] \in SeqToSet(rule.subject.roles)
        THEN Result(FALSE, FALSE, "")
        ELSE IF /\ Len(rule.resource.types) > 0
                /\ resource.type \notin SeqToSet(rule.resource.types)
        THEN Result(FALSE, FALSE, "")
        ELSE IF tc.startTime # Undefined /\ t < tc.startTime
        THEN Result(TRUE, FALSE, "Before allowed time")
        ELSE IF tc.endTime # Undefined /\ t > tc.endTime
        THEN Result(TRUE, FALSE, "After allowed time")
        ELSE IF /\ Len(tc.allowedDays) > 0
                /\ currentDay \notin SeqToSet(tc.allowedDays)
        THEN Result(TRUE, FALSE, "Not allowed on this day")
        ELSE IF \/ (tc.allowedHours.start # Undefined
                    /\ currentHour < tc.allowedHours.start)
                \/ (tc.allowedHours.end # Undefined
                    /\ currentHour > tc.allowedHours.end)
        THEN Result(TRUE, FALSE, "Outside allowed hours")
        ELSE IF /\ context.location # ""
                /\ context.location \in SeqToSet(lc.deniedLocations)
        THEN Result(TRUE, FALSE, "Location denied")
        ELSE IF /\ context.location # ""
                /\ Len(lc.allowedLocations) > 0
                /\ context.location \notin SeqToSet(lc.allowedLocations)
        THEN Result(TRUE, FALSE, "Location not allowed")
        ELSE IF jsUsageLimitExceeded(rule)
        THEN Result(TRUE, FALSE, "Usage limit exceeded")
        ELSE IF /\ context.ipAddress # ""
                /\ context.ipAddress \in SeqToSet(rule.conditions.ipBlacklist)
        THEN Result(TRUE, FALSE, "IP address blacklisted")
        ELSE IF /\ context.ipAddress # ""
                /\ Len(rule.conditions.ipWhitelist) > 0
                /\ context.ipAddress \notin SeqToSet(rule.conditions.ipWhitelist)
        THEN Result(TRUE, FALSE, "IP address not whitelisted")
        ELSE Result(TRUE, allowed, IF allowed THEN "Access granted"
                                   ELSE "Access denied")

\* policySchema.methods.evaluate: the first matching rule decides; the
\* statistics of the document are updated and saved
evaluate(doc, subject, resource, action, context, t) ==
    LET results == [i \in 1..Len(doc.rules) |->
                       evaluateRule(doc, doc.rules[i], subject, resource,
                                    action, context, t)]
        hits == {i \in 1..Len(doc.rules) : results[i].matched}
        first == CHOOSE i \in hits : \A j \in hits : i <= j
        Stats(ok) == [totalEvaluations |-> doc.statistics.totalEvaluations + 1,
                      successfulEvaluations |->
                          doc.statistics.successfulEvaluations
                              + (IF ok THEN 1 ELSE 0),
                      failedEvaluations |->
                          doc.statistics.failedEvaluations
                              + (IF ok THEN 0 ELSE 1)]
    IN  IF ~doc.isActive
        THEN [allowed |-> FALSE, reason |-> "Policy is inactive",
              statistics |-> doc.statistics, saved |-> FALSE]
        ELSE IF doc.isHidden /\ ~context.canViewHidden
        THEN [allowed |-> FALSE, reason |-> "Policy is hidden",
              statistics |-> doc.statistics, saved |-> FALSE]
        ELSE IF hits # {}
        THEN [allowed |-> results[first].allowed,
              reason |-> results[first].reason,
              statistics |-> Stats(results[first].allowed), saved |-> TRUE]
        ELSE [allowed |-> FALSE, reason |-> "No matching rules",
              statistics |-> Stats(FALSE), saved |-> TRUE]

\* the stored document of the policy the workers evaluate
JsRule(action, maxUsageCount) ==
    [subject |-> [roles |-> <<>>],
     resource |-> [types |-> <<>>],
     action |-> action,
     environment |->
        [timeConstraints |->
            [startTime |-> Undefined, endTime |-> Undefined,
             allowedDays |-> <<>>,
             allowedHours |-> [start |-> Undefined, end |-> Undefined],
             isRecurring |-> FALSE],
         locationConstraints |->
            [allowedLocations |-> <<>>, deniedLocations |-> <<>>]],
     conditions |-> [maxUsageCount |-> maxUsageCount, currentUsageCount |-> 0,
                     ipBlacklist |-> <<>>, ipWhitelist |-> <<>>]]

JsDocument(effect, action, maxUsageCount) ==
    [policyId |-> "P1", effect |-> effect, isActive |-> TRUE,
     isHidden |-> FALSE, rules |-> <<JsRule(action, maxUsageCount)>>,
     statistics |-> [totalEvaluations |-> 0, successfulEvaluations |-> 0,
                     failedEvaluations |-> 0]]

JsWorkers == 1..NumWorkers

JsIdle == [pc |-> "idle", doc |-> <<>>, allowed |-> FALSE, reason |-> ""]

\* a request worker loads the policy document (Policy.findOne)
JsLoad(w) ==
    /\ jsWorker[w].pc = "idle"
    /\ jsWorker' = [jsWorker EXCEPT ![w] = [@ EXCEPT !.pc = "loaded",
                                                     !.doc = jsDb]]
    /\ UNCHANGED <<now, pmVars, drVars, acVars, lastCall, jsDb>>

\* the worker runs policy.evaluate on its copy; save() writes the modified
\* statistics path
JsEvaluate(w, action) ==
    /\ jsWorker[w].pc = "loaded"
    /\ LET doc == jsWorker[w].doc
           r == evaluate(doc, [roles |-> <<>>], [type |-> "lockset"], action,
                         [canViewHidden |-> FALSE, location |-> "",
                          ipAddress |-> ""], now)
       IN  /\ jsWorker' = [jsWorker EXCEPT ![w] =
                   [pc |-> IF r.allowed THEN "evaluated" ELSE "done",
                    doc |-> [doc EXCEPT !.statistics = r.statistics],
                    allowed |-> r.allowed, reason |-> r.reason]]
           /\ jsDb' = IF r.saved THEN [jsDb EXCEPT !.statistics = r.statistics]
                      ELSE jsDb
    /\ UNCHANGED <<now, pmVars, drVars, acVars, lastCall>>

\* policySchema.methods.updateUsage on the worker's copy; save() writes the
\* modified usage counter
JsUpdateUsage(w) ==
    /\ jsWorker[w].pc = "evaluated"
    /\ LET doc == jsWorker[w].doc
           counted ==
               /\ Len(doc.rules) > 0
               /\ doc.rules[1].conditions.maxUsageCount # Undefined
               /\ doc.rules[1].conditions.maxUsageCount # 0
           newCount == doc.rules[1].conditions.currentUsageCount + 1
       IN  /\ jsWorker' = [jsWorker EXCEPT ![w] = [@ EXCEPT
                   !.pc = "done",
                   !.doc = IF counted
                           THEN [doc EXCEPT
                                    !.rules[1].conditions.currentUsageCount = newCount]
                           ELSE doc]]
           /\ jsDb' = IF counted
                      THEN [jsDb EXCEPT
                               !.rules[1].conditions.currentUsageCount = newCount]
                      ELSE jsDb
    /\ UNCHANGED <<now, pmVars, drVars, acVars, lastCall>>

\* ============================================================ specifications
Init ==
    /\ now = 0
    /\ policies = [p \in PolicyIds \cup {""} |-> ZeroPolicy]
    /\ policyExists = [p \in PolicyIds \cup {""} |-> FALSE]
    /\ totalPolicies = 0
    /\ lastEval = [applicable |-> <<>>, subject |-> "", action |-> "",
                   matched |-> <<>>,
                   hasAllowPolicy |-> FALSE, hasDenyPolicy |-> FALSE,
                   highestAllowPriority |-> 0, highestDenyPriority |-> 0,
                   result |-> FALSE]
    /\ registeredDevices = [d \in DeviceIds |-> FALSE]
    /\ devices = [d \in DeviceIds |-> "Inactive"]
    /\ totalDevices = 0
    /\ totalAccessRequests = 0
    /\ totalAccessGrants = 0
    /\ totalAccessDenials = 0
    /\ accessRequests = <<>>
    /\ accessGrants = <<>>
    /\ delegationChains = [a \in Addresses |-> <<>>]
    /\ revokedGrants = {}
    /\ userAccessCount = [a \in Addresses |-> 0]
    /\ deviceAccessCount = [d \in DeviceIds |-> 0]
    /\ evalLocals = [requestId |-> -1, hasDelegation |-> FALSE,
                     policyResult |-> FALSE, devicePermission |-> FALSE,
                     timeConstraint |-> FALSE]
    /\ auditTrail = <<>>
    /\ lastCall = Call("constructor", Admin, <<>>, NoError)
    /\ jsDb = JsDocument("Allow", "unlock", JsUsageLimit)
    /\ jsWorker = [w \in JsWorkers |-> JsIdle]

PipelinePolicyIds == {"P1"}
ValidDurations == {3600, MaxValidityDuration}

\* ---- Spec: the access-control pipeline; evaluatePolicy works on the
\* ---- candidate array an index over the stored policies supplies (any array
\* ---- of distinct stored policy ids, the empty array of
\* ---- _getApplicablePolicies included)
RegisterDevice ==
    \E d \in {x \in DeviceIds : ~registeredDevices[x]} :
        registerDevice("alice", d)

CreatePolicy ==
    \E pid \in {p \in PipelinePolicyIds : ~policyExists[p]}, e \in Effects :
        createABACPolicy(Admin, pid, e, DefaultPriority, <<>>, <<>>, <<>>,
                         <<>>, <<"unlock">>)

DeactivatePolicy ==
    /\ policies["P1"].isActive
    /\ updatePolicyStatus(Admin, "P1", FALSE)

RequestAccess ==
    /\ totalAccessRequests < MaxRequests
    /\ \E action \in Actions, dur \in ValidDurations, perm \in BOOLEAN,
          app \in CandidateArrays :
           requestAccess("bob", "device1", "lockset", action, <<>>, <<>>,
                         dur, perm, app)

\* calls that requestAccess rejects: <<attributeKeys, attributeValues,
\* validityDuration>>
RejectedInputs ==
    {<<<<>>, <<>>, 0>>, <<<<>>, <<>>, MaxValidityDuration + 1>>,
     <<<<sRole>>, <<>>, 3600>>}

RequestAccessRejected ==
    /\ \E in \in RejectedInputs :
           requestAccess("bob", "device1", "lockset", "unlock", in[1], in[2],
                         in[3], TRUE, <<>>)

CreateDelegation ==
    /\ Len(delegationChains["bob"]) < MaxChains
    /\ createDelegation("alice", "bob", <<"unlock">>, 1800, 1)

RevokeAccess ==
    \E g \in DOMAIN accessGrants : revokeAccess("bob", g, "revoked")

Advance == \E d \in TickSteps : Tick(d)

Next ==
    \/ RegisterDevice
    \/ CreatePolicy
    \/ DeactivatePolicy
    \/ RequestAccess
    \/ RequestAccessRejected
    \/ CreateDelegation
    \/ RevokeAccess
    \/ Advance

Spec == Init /\ [][Next]_vars

\* ---- SpecDeployed: the pipeline with the candidate lookup exactly as
\* ---- written (_getApplicablePolicies)
RequestAccessDeployed ==
    /\ totalAccessRequests < MaxRequests
    /\ \E action \in Actions, dur \in ValidDurations, perm \in BOOLEAN :
           requestAccess("bob", "device1", "lockset", action, <<>>, <<>>,
                         dur, perm, getApplicablePolicies("lockset", action))

NextDeployed ==
    \/ RegisterDevice
    \/ CreatePolicy
    \/ DeactivatePolicy
    \/ RequestAccessDeployed
    \/ CreateDelegation
    \/ Advance

SpecDeployed == Init /\ [][NextDeployed]_vars

\* ---- SpecCombine: PolicyManager alone; policies of both effects and
\* ---- priorities are created and evaluatePolicy is called directly
CombineCreate ==
    \E pid \in {p \in PolicyIds : ~policyExists[p]}, e \in Effects,
       pr \in Priorities :
        createABACPolicy(Admin, pid, e, pr, <<>>, <<>>, <<>>, <<>>,
                         <<"unlock">>)

CombineEvaluate ==
    /\ \A p \in PolicyIds : policies[p].currentUsageCount < MaxUsage
    /\ \E action \in Actions, app \in CandidateArrays :
           evaluatePolicyCall(Contract, app, "bob", "device1", "lockset",
                              action, <<>>)

NextCombine == CombineCreate \/ CombineEvaluate

SpecCombine == Init /\ [][NextCombine]_vars

\* ---- SpecUsage: PolicyManager alone; usage limits and the active flag
\* ---- change between evaluations
UsagePolicyIds == {"P1"}

UsageCreate ==
    \E pid \in {p \in UsagePolicyIds : ~policyExists[p]} :
        createABACPolicy("alice", pid, "Allow", DefaultPriority, <<>>, <<>>,
                         <<>>, <<>>, <<>>)

UsageSetStatus ==
    \E pid \in {p \in UsagePolicyIds : policyExists[p]}, b \in BOOLEAN :
        updatePolicyStatus("alice", pid, b)

UsageSetLimit ==
    \E pid \in {p \in UsagePolicyIds : policyExists[p]}, m \in 0..MaxLimit :
        setPolicyUsageLimit("alice", pid, m)

UsageEvaluate ==
    /\ \A p \in PolicyIds : policies[p].currentUsageCount < MaxUsage
    /\ \E subject \in {"alice", "bob"}, app \in CandidateArrays :
           evaluatePolicyCall(Contract, app, subject, "device1", "lockset",
                              "unlock", <<>>)

NextUsage == UsageCreate \/ UsageSetStatus \/ UsageSetLimit \/ UsageEvaluate

SpecUsage == Init /\ [][NextUsage]_vars

\* ---- SpecJs: request workers over the stored Policy document
JsLoadStep == \E w \in JsWorkers : JsLoad(w)

JsEvaluateStep == \E w \in JsWorkers, action \in Actions : JsEvaluate(w, action)

JsUpdateUsageStep == \E w \in JsWorkers : JsUpdateUsage(w)

NextJs == JsLoadStep \/ JsEvaluateStep \/ JsUpdateUsageStep

SpecJs == Init /\ [][NextJs]_vars

\* ---- SpecGrants: the life of a grant on a clock of one-second steps:
\* ---- requests of short validity, revocation by every caller, device
\* ---- deactivation and audit-logger failure
ShortDurations == {1, 2}
UnknownGrantId == generateGrantId(9, 9)
Revokers == Addresses \cup {Contract}

GrantsRequest ==
    /\ \/ totalAccessRequests < MaxRequests
       \/ ~(isDeviceRegistered("device1") /\ isDeviceActive("device1"))
    /\ \E dur \in ShortDurations, perm \in BOOLEAN, app \in CandidateArrays :
           requestAccess("bob", "device1", "lockset", "unlock", <<>>, <<>>,
                         dur, perm, app)

GrantsRequestAuditReverts ==
    /\ totalAccessRequests < MaxRequests
    /\ \E dur \in ShortDurations :
           requestAccessAuditReverts("bob", "device1", <<>>, <<>>, dur)

GrantsRevoke ==
    \E sender \in Revokers, g \in DOMAIN accessGrants \cup {UnknownGrantId} :
        revokeAccess(sender, g, "revoked")

GrantsDeactivateDevice ==
    /\ devices["device1"] = "Active"
    /\ deactivateDevice(Admin, "device1")

GrantsTick ==
    /\ now < MaxClock
    /\ Tick(1)

NextGrants ==
    \/ RegisterDevice
    \/ CreatePolicy
    \/ GrantsRequest
    \/ GrantsRequestAuditReverts
    \/ GrantsRevoke
    \/ GrantsDeactivateDevice
    \/ GrantsTick

SpecGrants == Init /\ [][NextGrants]_vars

\* ---- SpecCreate: the three create functions of PolicyManager called with
\* ---- valid and invalid ids, priorities and action lists
CreateIds == {"", "P1"}
CreatePriorities == {0, DefaultPriority, 1001}
CreateActionLists == {<<>>, <<"unlock">>}
\* <<startTime, endTime, isRecurring>>
CreateTimeRanges == {<<0, 1, FALSE>>, <<1, 0, FALSE>>, <<1, 0, TRUE>>}

CreateABAC ==
    \E pid \in CreateIds, e \in Effects, prio \in CreatePriorities,
       acts \in CreateActionLists :
        createABACPolicy(Admin, pid, e, prio, <<>>, <<>>, <<>>, <<>>, acts)

CreateTimeBased ==
    \E pid \in CreateIds, e \in Effects, range \in CreateTimeRanges :
        createTimeBasedPolicy(Admin, pid, e, range[1], range[2], <<>>, 0, 0,
                              range[3], <<"unlock">>)

CreateLocationBased ==
    \E pid \in CreateIds, e \in Effects, acts \in CreateActionLists :
        createLocationBasedPolicy(Admin, pid, e, <<>>, <<>>, acts)

NextCreate == CreateABAC \/ CreateTimeBased \/ CreateLocationBased

SpecCreate == Init /\ [][NextCreate]_vars

\* ---- SpecGate: updatePolicyStatus and setPolicyUsageLimit called by every
\* ---- address on a stored and on a missing policy, between evaluations
GatePolicyIds == {"P1", "P2"}

GateCreate ==
    /\ ~policyExists["P1"]
    /\ createABACPolicy("alice", "P1", "Allow", DefaultPriority, <<>>, <<>>,
                        <<>>, <<>>, <<>>)

GateSetStatus ==
    \E sender \in Addresses, pid \in GatePolicyIds, b \in BOOLEAN :
        updatePolicyStatus(sender, pid, b)

GateSetLimit ==
    \E sender \in Addresses, pid \in GatePolicyIds, m \in 0..MaxLimit :
        setPolicyUsageLimit(sender, pid, m)

GateEvaluate ==
    /\ \A p \in PolicyIds : policies[p].currentUsageCount < MaxUsage
    /\ \E app \in CandidateArrays :
           evaluatePolicyCall(Contract, app, "bob", "device1", "lockset",
                              "unlock", <<>>)

NextGate == GateCreate \/ GateSetStatus \/ GateSetLimit \/ GateEvaluate

SpecGate == Init /\ [][NextGate]_vars

\* ---- SpecMatch: one policy with a subject condition and a usage limit and
\* ---- one with an absolute time window, evaluated for two subjects, both
\* ---- actions and several fact arrays as time passes
MatchFacts == {<<>>, <<sRole, sGuard>>, <<sRole, sRole>>}

MatchCreateABAC ==
    /\ ~policyExists["P1"]
    /\ createABACPolicy(Admin, "P1", "Allow", DefaultPriority, <<sRole>>,
                        <<sGuard>>, <<"Equal">>, <<>>, <<"unlock">>)

MatchCreateTimeBased ==
    /\ ~policyExists["P2"]
    /\ createTimeBasedPolicy(Admin, "P2", "Deny", 1, 2, <<>>, 0, 0, FALSE,
                             <<>>)

MatchSetLimit ==
    /\ policyExists["P1"]
    /\ policies["P1"].maxUsageCount = 0
    /\ setPolicyUsageLimit(Admin, "P1", 1)

MatchArrays == {<<"P1">>, <<"P1", "P2">>, <<"P2", "P1">>} \cap CandidateArrays

MatchEvaluate ==
    /\ policies["P1"].currentUsageCount + policies["P2"].currentUsageCount
           < MaxUsage
    /\ \E subject \in {"alice", "bob"}, action \in Actions,
          facts \in MatchFacts, app \in MatchArrays :
           evaluatePolicyCall(Contract, app, subject, "device1", "lockset",
                              action, facts)

MatchTick ==
    /\ now < MaxClock
    /\ Tick(1)

NextMatch ==
    \/ MatchCreateABAC
    \/ MatchCreateTimeBased
    \/ MatchSetLimit
    \/ MatchEvaluate
    \/ MatchTick

SpecMatch == Init /\ [][NextMatch]_vars

\* ---- SpecLedger: several requests by two users, granted and denied, at the
\* ---- same and at different block timestamps, with revocations and rejected
\* ---- calls in between
MaxLedger == 2

LedgerCreatePolicy ==
    /\ ~policyExists["P1"]
    /\ createABACPolicy(Admin, "P1", "Allow", DefaultPriority, <<>>, <<>>,
                        <<>>, <<>>, <<"unlock">>)

LedgerRequest ==
    /\ totalAccessRequests < MaxLedger
    /\ \E sender \in {"alice", "bob"}, perm \in BOOLEAN,
          app \in CandidateArrays :
           requestAccess(sender, "device1", "lockset", "unlock", <<>>, <<>>,
                         2, perm, app)

LedgerRequestRejected ==
    requestAccess("bob", "device1", "lockset", "unlock", <<>>, <<>>, 0, TRUE,
                  <<>>)

LedgerRevoke ==
    \E g \in DOMAIN accessGrants : revokeAccess(Admin, g, "revoked")

LedgerTick ==
    /\ now < MaxClock
    /\ Tick(1)

NextLedger ==
    \/ RegisterDevice
    \/ LedgerCreatePolicy
    \/ LedgerRequest
    \/ LedgerRequestRejected
    \/ LedgerRevoke
    \/ LedgerTick

SpecLedger == Init /\ [][NextLedger]_vars

\* ---- SpecFacts: a policy with one subject condition on "role", under each
\* ---- operator, evaluated directly on fact arrays and through requestAccess
\* ---- with attribute keys and values
sNurse == <<"n", "u", "r", "s", "e">>

Operators ==
    {"Equal", "NotEqual", "GreaterThan", "LessThan", "Contains", "StartsWith"}

sLevel == <<"l", "e", "v", "e", "l">>

\* subjectAttributes arrays handed to evaluatePolicy
FactArrays ==
    {<<>>, <<sRole>>, <<sRole, sGuard>>, <<sRole, sNurse>>, <<sNurse, sRole>>,
     <<sNurse, sRole, sGuard>>, <<sLevel, toString(3)>>,
     <<sLevel, toString(5)>>, <<sLevel, toString(12)>>, <<sLevel, sNurse>>}

\* <<attributeKeys, attributeValues>> handed to requestAccess
FactInputs ==
    {<<<<>>, <<>>>>, <<<<sRole>>, <<sGuard>>>>, <<<<sRole>>, <<sNurse>>>>,
     <<<<sRole, sGuard>>, <<sNurse, sNurse>>>>,
     <<<<sNurse, sRole>>, <<sRole, sGuard>>>>}

FactsCreatePolicy ==
    /\ ~policyExists["P1"]
    /\ \E op \in Operators :
           createABACPolicy(Admin, "P1", "Allow", DefaultPriority, <<sRole>>,
                            <<sGuard>>, <<op>>, <<>>, <<>>)

FactsCreateNumeric ==
    /\ ~policyExists["P2"]
    /\ \E op \in {"GreaterThan", "LessThan"}, expected \in {toString(5), sGuard} :
           createABACPolicy(Admin, "P2", "Allow", DefaultPriority, <<sLevel>>,
                            <<expected>>, <<op>>, <<>>, <<>>)

FactsArrays == {<<"P1">>, <<"P2">>} \cap CandidateArrays

FactsEvaluate ==
    /\ policies["P1"].currentUsageCount + policies["P2"].currentUsageCount
           < MaxUsage
    /\ \E facts \in FactArrays, app \in FactsArrays :
           evaluatePolicyCall(Contract, app, "bob", "device1", "lockset",
                              "unlock", facts)

FactsRequest ==
    /\ totalAccessRequests < MaxRequests
    /\ policies["P1"].currentUsageCount + policies["P2"].currentUsageCount
           < MaxUsage
    /\ \E in \in FactInputs, app \in FactsArrays :
           requestAccess("bob", "device1", "lockset", "unlock", in[1], in[2],
                         3600, TRUE, app)

NextFacts ==
    \/ RegisterDevice
    \/ FactsCreatePolicy
    \/ FactsCreateNumeric
    \/ FactsEvaluate
    \/ FactsRequest

SpecFacts == Init /\ [][NextFacts]_vars

\* ---- SpecWindow: a recurring Monday-to-Friday 0900-1700 policy, with and
\* ---- without absolute bounds, evaluated at chosen instants of a week
\* (1 January 1970, day 0, was a Thursday)
WindowInstants ==
    {2 * SecondsPerDay + 10 * SecondsPerHour,             \* Saturday 10:00
     6 * SecondsPerDay + 8 * SecondsPerHour + 59 * 60,    \* Wednesday 08:59
     6 * SecondsPerDay + 10 * SecondsPerHour,             \* Wednesday 10:00
     6 * SecondsPerDay + 17 * SecondsPerHour,             \* Wednesday 17:00
     6 * SecondsPerDay + 17 * SecondsPerHour + 30 * 60,   \* Wednesday 17:30
     6 * SecondsPerDay + 20 * SecondsPerHour}             \* Wednesday 20:00

\* <<startTime, endTime>> of the recurring policy
WindowRanges == {<<0, 0>>, <<1, 2>>, <<1, 8 * SecondsPerDay>>}

WindowCreate ==
    /\ ~policyExists["P1"]
    /\ \E e \in Effects, range \in WindowRanges :
           createTimeBasedPolicy(Admin, "P1", e, range[1], range[2],
                                 <<1, 2, 3, 4, 5>>, 900, 1700, TRUE, <<>>)

WindowEvaluate ==
    /\ policies["P1"].currentUsageCount < MaxUsage
    /\ \E subject \in {"alice", "bob"}, app \in CandidateArrays :
           evaluatePolicyCall(Contract, app, subject, "device1", "lockset",
                              "unlock", <<>>)

WindowAdvance == \E t \in WindowInstants : AdvanceTo(t)

NextWindow ==
    \/ WindowCreate
    \/ WindowEvaluate
    \/ WindowAdvance

SpecWindow == Init /\ [][NextWindow]_vars

\* ---- SpecDelegation: delegation chains, created with valid and invalid
\* ---- arguments, and their resolution by requestAccess as time passes
\* createDelegation calls: <<sender, delegatee, permissions, validityDuration,
\* maxDepth>>
DelegationInputs ==
    {<<"alice", "bob", <<"unlock">>, 1, 5>>,
     <<"bob", "admin", <<"read">>, 2, 1>>,
     <<"alice", "bob", <<"unlock">>, 1, 0>>,
     <<"alice", "bob", <<"unlock">>, 1, 6>>,
     <<"bob", "bob", <<"unlock">>, 1, 1>>}
DelegationRequesters == {"bob", "admin"}

DelegationCreate ==
    \E in \in DelegationInputs :
        /\ \/ Len(delegationChains[in[2]]) < MaxChains
           \/ createDelegationError(in[1], in[2], in[3], in[4], in[5]) # NoError
        /\ createDelegation(in[1], in[2], in[3], in[4], in[5])

DelegationRequest ==
    /\ totalAccessRequests < MaxRequests
    /\ \E sender \in DelegationRequesters :
           requestAccess(sender, "device1", "lockset", "unlock", <<>>, <<>>,
                         3600, FALSE, <<>>)

DelegationTick ==
    /\ now < MaxClock
    /\ Tick(1)

NextDelegation ==
    \/ RegisterDevice
    \/ DelegationCreate
    \/ DelegationRequest
    \/ DelegationTick

SpecDelegation == Init /\ [][NextDelegation]_vars

\* =================================================================== claims
\* the policies of one effect that matched in the last evaluatePolicy run
MatchedOf(effect) ==
    {p \in SeqToSet(lastEval.matched) : policies[p].effect = effect}

HighestPriority(S) == SetMax({policies[p].priority : p \in S})

\* the grant id a request gets, and the status of a stored request
GrantIdOf(r) == generateGrantId(r, accessRequests[r].timestamp)

HasGrant(r) == GrantIdOf(r) \in DOMAIN accessGrants

Status(r) ==
    IF ~accessRequests[r].isActive THEN "Denied"
    ELSE IF HasGrant(r) THEN "Granted"
    ELSE "Pending"

LastRequest == totalAccessRequests - 1

RequestJustAccepted ==
    /\ lastCall.op = "requestAccess"
    /\ lastCall.error = NoError
    /\ evalLocals.requestId = LastRequest

\* C1: whenever an Allow policy and a Deny policy both matched in an
\* evaluatePolicy run and the highest matched Deny priority equals the highest
\* matched Allow priority, the run returned Deny (false).
C1_DenyOverridesOnTie ==
    (/\ MatchedOf("Allow") # {}
     /\ MatchedOf("Deny") # {}
     /\ HighestPriority(MatchedOf("Deny")) = HighestPriority(MatchedOf("Allow")))
    => lastEval.result = FALSE

C1_Witness ==
    /\ MatchedOf("Allow") # {}
    /\ MatchedOf("Deny") # {}
    /\ HighestPriority(MatchedOf("Deny")) = HighestPriority(MatchedOf("Allow"))
    /\ lastEval.result = FALSE
    /\ \E p \in MatchedOf("Allow") : policies[p].currentUsageCount = 2

\* C2: an evaluatePolicy run returns Allow exactly when some Allow policy
\* matched and every matched Deny policy has a priority strictly below the
\* highest matched Allow priority; a matched Deny@50 does not override a
\* matched Allow@100.
C2_PriorityOrdering ==
    lastEval.result =
        (/\ MatchedOf("Allow") # {}
         /\ \A d \in MatchedOf("Deny") :
                policies[d].priority < HighestPriority(MatchedOf("Allow")))

C2_Witness ==
    /\ \E d \in MatchedOf("Deny") : policies[d].priority = 50
    /\ HighestPriority(MatchedOf("Allow")) = 100
    /\ lastEval.result = TRUE

\* C3: when no candidate policy matched the request (empty store, empty
\* candidate array, inactive or non-matching policies), evaluatePolicy returned
\* Deny and the request is denied and has no grant, whatever the device
\* permission and the delegation facts are.
C3_DefaultDeny ==
    (evalLocals.requestId # -1 /\ lastEval.matched = <<>>)
    => /\ lastEval.result = FALSE
       /\ evalLocals.policyResult = FALSE
       /\ ~HasGrant(evalLocals.requestId)
       /\ Status(evalLocals.requestId) = "Denied"

C3_Witness ==
    /\ evalLocals.requestId # -1
    /\ lastEval.matched = <<>>
    /\ lastEval.applicable # <<>>
    /\ evalLocals.devicePermission
    /\ evalLocals.hasDelegation
    /\ Status(evalLocals.requestId) = "Denied"

\* C4: Scenario A - with one active Allow policy of priority 100 that lists the
\* requested action, no Deny policy, a registered active device and a
\* requester with device permission or a covering delegation, an accepted
\* requestAccess of validity 3600 ends Granted and has a grant.
C4_ScenarioAGranted ==
    (/\ RequestJustAccepted
     /\ lastCall.args[2] = 3600
     /\ accessRequests[LastRequest].action = "unlock"
     /\ policyExists["P1"]
     /\ policies["P1"].isActive
     /\ policies["P1"].effect = "Allow"
     /\ policies["P1"].priority = 100
     /\ "unlock" \in SeqToSet(policies["P1"].allowedActions)
     /\ \A p \in PolicyIds : policyExists[p] => policies[p].effect = "Allow"
     /\ isDeviceRegistered("device1") /\ isDeviceActive("device1")
     /\ (evalLocals.devicePermission \/ evalLocals.hasDelegation))
    => /\ Status(LastRequest) = "Granted"
       /\ HasGrant(LastRequest)

\* C5: the evaluated request has a grant (is Granted) exactly when
\* policyAllowed AND (devicePermission OR hasDelegation), policyAllowed being
\* the decision evaluatePolicy returned; otherwise it is Denied.
C5_GrantedIff ==
    evalLocals.requestId # -1 =>
        LET r == evalLocals.requestId
            expected == /\ lastEval.result
                        /\ (evalLocals.devicePermission \/ evalLocals.hasDelegation)
        IN  /\ evalLocals.policyResult = lastEval.result
            /\ HasGrant(r) = expected
            /\ Status(r) = IF expected THEN "Granted" ELSE "Denied"

C5_Witness ==
    /\ evalLocals.requestId # -1
    /\ lastEval.result
    /\ ~evalLocals.devicePermission
    /\ evalLocals.hasDelegation
    /\ Status(evalLocals.requestId) = "Granted"

C8_TerminalOnce ==
    /\ [](\A r \in DOMAIN accessRequests :
            /\ Status(r) \in {"Granted", "Denied"}
            /\ ~(HasGrant(r) /\ ~accessRequests[r].isActive))
    /\ [][\A r \in DOMAIN accessRequests :
            /\ r \in DOMAIN accessRequests'
            /\ Status(r)' = Status(r)]_vars

C8_Witness ==
    /\ totalAccessRequests > 0
    /\ Status(0) = "Granted"
    /\ accessGrants[GrantIdOf(0)].isRevoked
    /\ now > accessRequests[0].timestamp
    /\ lastCall.op = "requestAccess"
    /\ lastCall.error # NoError

C10_GrantValidity ==
    /\ \A g \in DOMAIN accessGrants :
          /\ accessGrants[g].validUntil >= accessGrants[g].grantedAt
          /\ \E r \in DOMAIN accessRequests :
                /\ g = GrantIdOf(r)
                /\ accessGrants[g].grantedAt = accessRequests[r].timestamp
                /\ accessGrants[g].validUntil = accessRequests[r].expirationTime
    /\ RequestJustAccepted =>
          accessRequests[LastRequest].expirationTime =
              accessRequests[LastRequest].timestamp + lastCall.args[2]

C10_Witness ==
    /\ RequestJustAccepted
    /\ HasGrant(LastRequest)
    /\ accessRequests[LastRequest].timestamp > 0
    /\ accessGrants[GrantIdOf(LastRequest)].validUntil =
           accessRequests[LastRequest].timestamp + 86400

C13_RevokeErrors ==
    [][(lastCall' # lastCall /\ lastCall'.op = "revokeAccess")
       => LET g == lastCall'.args[1]
              kind == ErrorKind(lastCall'.error)
          IN  /\ g \notin DOMAIN accessGrants => kind = "NotFound"
              /\ (g \in DOMAIN accessGrants /\ accessGrants[g].isRevoked)
                 => kind = "AlreadyRevoked"
              /\ (/\ g \in DOMAIN accessGrants
                  /\ ~accessGrants[g].isRevoked
                  /\ now > accessGrants[g].validUntil)
                 => kind = "Expired"
              /\ kind # "ok" => UNCHANGED <<now, pmVars, drVars, acVars>>]_vars

C13_Witness ==
    /\ lastCall.op = "revokeAccess"
    /\ ErrorKind(lastCall.error) = "Expired"
    /\ lastCall.args[1] \in DOMAIN accessGrants
    /\ ~accessGrants[lastCall.args[1]].isRevoked
    /\ now > accessGrants[lastCall.args[1]].validUntil
    /\ Len(auditTrail) > 0

\* C14: a revokeAccess call on a valid grant succeeds only for the admin, the
\* grantee or the granter; for any other caller it fails with Unauthorized
\* and the grant stays unrevoked and valid.
C14_RevokeAuthorised ==
    [][(/\ lastCall' # lastCall
        /\ lastCall'.op = "revokeAccess"
        /\ isAccessGrantValid(lastCall'.args[1], now))
       => LET g == lastCall'.args[1]
              authorised == lastCall'.sender \in
                                {Admin, accessGrants[g].grantee,
                                 accessGrants[g].grantedBy}
          IN  IF authorised
              THEN /\ lastCall'.error = NoError
                   /\ accessGrants'[g].isRevoked
              ELSE /\ ErrorKind(lastCall'.error) = "Unauthorized"
                   /\ accessGrants' = accessGrants
                   /\ ~accessGrants'[g].isRevoked
                   /\ accessGrants'[g].validUntil > now']_vars

C14_Witness ==
    /\ lastCall.op = "revokeAccess"
    /\ lastCall.sender = "alice"
    /\ ErrorKind(lastCall.error) = "Unauthorized"
    /\ isAccessGrantValid(lastCall.args[1], now)

\* the chains stored for any delegatee
StoredChains ==
    UNION {SeqToSet(delegationChains[a]) : a \in Addresses}

\* C15: a createDelegation call with maxDepth outside 1..5 or with the
\* delegatee equal to the caller fails with InvalidInput and stores no chain,
\* and every stored chain has delegatee # delegator and 1 <= maxDepth <= 5.
C15_DelegationBounds ==
    /\ [](\A c \in StoredChains :
            /\ c.delegatee # c.delegator
            /\ 1 <= c.maxDelegationDepth /\ c.maxDelegationDepth <= 5)
    /\ [][(/\ lastCall' # lastCall
            /\ lastCall'.op = "createDelegation"
            /\ \/ lastCall'.args[4] \notin 1..5
               \/ lastCall'.args[1] = lastCall'.sender)
           => /\ ErrorKind(lastCall'.error) = "InvalidInput"
              /\ UNCHANGED <<now, pmVars, drVars, acVars>>]_vars

C15_Witness ==
    /\ lastCall.op = "createDelegation"
    /\ lastCall.args[4] = 6
    /\ lastCall.error = "IoTAccessControl: Invalid delegation depth"
    /\ \E c \in StoredChains : c.maxDelegationDepth = 5

\* C16: the delegation coverage computed for an accepted request is true
\* exactly when the requester has a chain that is active, has
\* now < validUntil and lists the action; chains are never removed or changed.
C16_DelegationResolution ==
    /\ [](RequestJustAccepted =>
            LET r == accessRequests[LastRequest]
            IN  evalLocals.hasDelegation <=>
                    \E c \in SeqToSet(delegationChains[r.requester]) :
                        /\ c.isActive
                        /\ r.timestamp < c.validUntil
                        /\ r.action \in SeqToSet(c.permissions))
    /\ [][\A a \in Addresses :
            /\ Len(delegationChains'[a]) >= Len(delegationChains[a])
            /\ SubSeq(delegationChains'[a], 1, Len(delegationChains[a]))
                   = delegationChains[a]]_vars

C16_Witness ==
    /\ RequestJustAccepted
    /\ ~evalLocals.hasDelegation
    /\ \E c \in SeqToSet(delegationChains[accessRequests[LastRequest].requester]) :
          /\ c.isActive
          /\ accessRequests[LastRequest].action \in SeqToSet(c.permissions)
          /\ c.validUntil = accessRequests[LastRequest].timestamp

\* C17: a request is covered by delegation only if a chain whose delegatee is
\* the requester lists the action; chains are stored under their delegatee,
\* and a chain to another subject gives the requester nothing, whatever its
\* maxDelegationDepth.
C17_SingleHop ==
    /\ \A a \in Addresses :
          \A c \in SeqToSet(delegationChains[a]) : c.delegatee = a
    /\ RequestJustAccepted =>
          LET r == accessRequests[LastRequest]
          IN  evalLocals.hasDelegation =>
                  \E c \in StoredChains :
                      /\ c.delegatee = r.requester
                      /\ r.action \in SeqToSet(c.permissions)

C17_Witness ==
    /\ RequestJustAccepted
    /\ accessRequests[LastRequest].requester = "admin"
    /\ ~evalLocals.hasDelegation
    /\ \E c \in SeqToSet(delegationChains["admin"]) :
          /\ c.delegator = "bob"
          /\ c.validUntil > accessRequests[LastRequest].timestamp
    /\ \E c \in SeqToSet(delegationChains["bob"]) :
          /\ c.maxDelegationDepth = 5
          /\ c.validUntil > accessRequests[LastRequest].timestamp
          /\ accessRequests[LastRequest].action \in SeqToSet(c.permissions)

C19_DecisionSurvivesAuditFailure ==
    [][(/\ lastCall' # lastCall
        /\ lastCall'.op = "requestAccess"
        /\ lastCall'.error = AuditReverted)
       => /\ totalAccessRequests' = totalAccessRequests + 1
          /\ Status(LastRequest)' \in {"Granted", "Denied"}
          /\ totalAccessGrants' + totalAccessDenials'
                 = totalAccessGrants + totalAccessDenials + 1]_vars

\* C20: every stored policy has a non-empty id and a priority in [1,1000],
\* and a stored Deny policy names resource types or allowed actions; a create
\* call for an existing id failed with DuplicateId.
C20_CreateValidated ==
    /\ \A p \in DOMAIN policies :
          policyExists[p]
          => /\ p # ""
             /\ policies[p].policyId = p
             /\ 1 <= policies[p].priority /\ policies[p].priority <= 1000
             /\ policies[p].effect = "Deny"
                => \/ policies[p].resourceTypes # <<>>
                   \/ policies[p].allowedActions # <<>>
    /\ (/\ lastCall.op \in {"createABACPolicy", "createTimeBasedPolicy",
                             "createLocationBasedPolicy"}
        /\ lastCall.error # NoError)
       => PolicyErrorKind(lastCall.error) \in {"DuplicateId", "InvalidPolicy"}

\* C21: an updatePolicyStatus or setPolicyUsageLimit call on a missing policy
\* id fails with NotFound, by a caller other than the policy's creator and the
\* admin with Unauthorized, and a failed call leaves every policy (active
\* flag, maxUsageCount, usage counters) unchanged; creator and admin succeed.
C21_ModifyGated ==
    [][(/\ lastCall' # lastCall
        /\ lastCall'.op \in {"updatePolicyStatus", "setPolicyUsageLimit"})
       => LET pid == lastCall'.args[1]
              kind == PolicyErrorKind(lastCall'.error)
          IN  /\ kind = IF ~policyExists[pid] THEN "NotFound"
                        ELSE IF lastCall'.sender \in
                                  {policies[pid].creator, Admin}
                        THEN "ok" ELSE "Unauthorized"
              /\ kind # "ok" => UNCHANGED <<now, pmVars, drVars, acVars>>]_vars

C21_Witness ==
    /\ lastCall.op = "setPolicyUsageLimit"
    /\ lastCall.sender = "bob"
    /\ PolicyErrorKind(lastCall.error) = "Unauthorized"
    /\ policies["P1"].currentUsageCount > 0
    /\ policies["P1"].maxUsageCount > 0
    /\ ~policies["P1"].isActive

\* the policies findCandidates is to return for (resource, action)
IsCandidate(p, resource, action) ==
    /\ policyExists[p]
    /\ policies[p].isActive
    /\ \/ policies[p].resourceTypes = <<>>
       \/ resource \in SeqToSet(policies[p].resourceTypes)
    /\ \/ policies[p].allowedActions = <<>>
       \/ action \in SeqToSet(policies[p].allowedActions)

\* C22: for every action, the candidate lookup returns exactly the active
\* policies whose resourceTypes and allowedActions are empty or matching, and
\* a policy that matched in the evaluation of the last accepted request is
\* active.
C22_CandidateLookup ==
    /\ \A a \in Actions, p \in PolicyIds :
          p \in SeqToSet(getApplicablePolicies("lockset", a))
              <=> IsCandidate(p, "lockset", a)
    /\ RequestJustAccepted =>
          \A p \in SeqToSet(lastEval.matched) : policies[p].isActive

\* the full match of a candidate policy p in an evaluatePolicy run, read from
\* the state before the run
FullMatch(p, app, subject, action, facts) ==
    /\ p \in SeqToSet(app)
    /\ policies[p].isActive
    /\ ~UsageExceeded(policies[p])
    /\ isActionAllowed(policies[p].allowedActions, action)
    /\ evaluateSubjectConditions(policies[p], subject, facts)
    /\ evaluateTimeConstraints(policies[p].timeConstraint, now)
    /\ evaluateLocationConstraints(policies[p].locationConstraint, <<>>)

\* C23: an evaluatePolicy run adds exactly 1 to currentUsageCount and to the
\* subject's userUsageCount of every policy that fully matched, and leaves
\* every other policy, and the counts of every other subject, unchanged.
C23_CountOnMatchOnly ==
    [][(/\ lastCall'.op = "evaluatePolicy"
        /\ (lastCall' # lastCall \/ policies' # policies \/ lastEval' # lastEval))
       => \A p \in PolicyIds :
            IF FullMatch(p, lastEval'.applicable, lastEval'.subject,
                         lastEval'.action, lastCall'.args[1])
            THEN policies'[p] =
                     [policies[p] EXCEPT
                         !.currentUsageCount = @ + 1,
                         !.userUsageCount[lastEval'.subject] = @ + 1]
            ELSE policies'[p] = policies[p]]_vars

C23_Witness ==
    /\ lastCall.op = "evaluatePolicy"
    /\ lastEval.applicable = <<"P1", "P2">>
    /\ lastEval.matched = <<"P2">>
    /\ lastEval.subject = "bob"
    /\ policies["P1"].maxUsageCount = 1
    /\ policies["P1"].currentUsageCount = 1
    /\ policies["P1"].userUsageCount["alice"] = 1
    /\ policies["P2"].userUsageCount["bob"] = 1
    /\ lastCall.args[1] = <<sRole, sGuard>>

\* the audit events of request r, in emission order: those carrying its
\* request id or the id of its grant
RequestEventKinds ==
    {"AccessRequested", "logAccessDenial", "AccessDenied",
     "UnauthorizedAccessAttempt"}

GrantEventKinds == {"logAccessGrant", "AccessGranted"}

BelongsTo(e, r) ==
    \/ e.kind \in RequestEventKinds /\ e.ref = toString(r)
    \/ e.kind \in GrantEventKinds /\ e.ref = GrantIdOf(r)

KindsOf(r) ==
    LET mine(e) == BelongsTo(e, r)
        events == SelectSeq(auditTrail, mine)
    IN  [i \in 1..Len(events) |-> events[i].kind]

\* C24: the audit events of every accepted request are, in order, its request
\* event and then either the grant events (request granted) or the denial
\* events with the unauthorized-attempt event (request denied), each once;
\* every request, grant and denial event belongs to a stored request.
C24_AuditOrdering ==
    /\ \A r \in DOMAIN accessRequests :
          KindsOf(r) =
              IF Status(r) = "Granted"
              THEN <<"AccessRequested", "logAccessGrant", "AccessGranted">>
              ELSE <<"AccessRequested", "logAccessDenial", "AccessDenied",
                     "UnauthorizedAccessAttempt">>
    /\ \A i \in 1..Len(auditTrail) :
          auditTrail[i].kind \in RequestEventKinds \cup GrantEventKinds
              => \E r \in DOMAIN accessRequests : BelongsTo(auditTrail[i], r)

C24_Witness ==
    /\ DOMAIN accessRequests = {0, 1}
    /\ Status(0) = "Denied"
    /\ Status(1) = "Granted"
    /\ accessRequests[0].timestamp = accessRequests[1].timestamp
    /\ accessGrants[GrantIdOf(1)].isRevoked
    /\ lastCall.error # NoError

\* the fact map an alternating name/value array stands for
FactMap(facts) ==
    LET names == {facts[j] : j \in {k \in 1..Len(facts) : k % 2 = 1 /\ k < Len(facts)}}
    IN  [n \in names |->
            facts[1 + CHOOSE j \in 1..Len(facts) :
                         /\ j % 2 = 1
                         /\ j < Len(facts)
                         /\ facts[j] = n
                         /\ \A k \in 1..(j - 1) : k % 2 = 1 => facts[k] # n]]

\* policy p matched only on facts that give every name its conditions test,
\* and give an Equal condition the expected value
MatchedOnFacts(p, facts) ==
    \A i \in 1..Len(policies[p].subjectConditions) :
        LET condition == policies[p].subjectConditions[i]
        IN  /\ condition.attributeName \in DOMAIN facts
            /\ condition.operator = "Equal"
                   => facts[condition.attributeName] = condition.expectedValue

\* direct evaluatePolicy runs: a matched policy found every name it tests
DirectEvaluationFailsClosed ==
    lastCall.op = "evaluatePolicy"
        => \A p \in SeqToSet(lastEval.matched) :
               MatchedOnFacts(p, FactMap(lastCall.args[1]))

Digits == {"0", "1", "2", "3", "4", "5", "6", "7", "8", "9"}

ParsesAsNumber(str) ==
    /\ Len(str) > 0
    /\ \A i \in 1..Len(str) : str[i] \in Digits

DigitValue(c) == CHOOSE d \in 0..9 : toString(d) = <<c>>

RECURSIVE NumberOf(_)
NumberOf(str) ==
    IF Len(str) = 0 THEN 0
    ELSE 10 * NumberOf(SubSeq(str, 1, Len(str) - 1)) + DigitValue(str[Len(str)])

\* a GreaterThan or LessThan condition holding of an actual value
NumericConditionHolds(condition, actual) ==
    /\ ParsesAsNumber(actual)
    /\ ParsesAsNumber(condition.expectedValue)
    /\ IF condition.operator = "GreaterThan"
       THEN NumberOf(actual) > NumberOf(condition.expectedValue)
       ELSE NumberOf(actual) < NumberOf(condition.expectedValue)

Weekday(t) == ((t \div SecondsPerDay) + 4) % 7

TimeOfDay(t) ==
    ((t % SecondsPerDay) \div SecondsPerHour) * 100
        + ((t % SecondsPerHour) \div 60)

InRecurringWindow(constraint, t) ==
    /\ Weekday(t) \in SeqToSet(constraint.allowedDays)
    /\ TimeOfDay(t) >= constraint.startHour
    /\ TimeOfDay(t) <= constraint.endHour

\* C27: a recurring time constraint, whatever its startTime and endTime,
\* matches at the current block time exactly when the weekday is one of
\* allowedDays and the time of day lies in [startHour, endHour].
C27_RecurringWindow ==
    \A p \in PolicyIds :
        (policyExists[p] /\ policies[p].timeConstraint.isRecurring)
            => (evaluateTimeConstraints(policies[p].timeConstraint, now)
                    <=> InRecurringWindow(policies[p].timeConstraint, now))

\* C28: after every operation the request counter is the sum of the grant and
\* denial counters, the grant counter is the number of grant records, and the
\* success rate of getAccessStats is the percentage of granted requests
\* rounded down (0 without requests); a failed call changes no counter.
C28_StatsConsistent ==
    /\ [](LET stats == getAccessStats
          IN  /\ stats.totalRequests = stats.totalGrants + stats.totalDenials
              /\ stats.totalGrants = Cardinality(DOMAIN accessGrants)
              /\ stats.totalRequests = Cardinality(DOMAIN accessRequests)
              /\ IF stats.totalRequests = 0 THEN stats.successRate = 0
                 ELSE /\ stats.successRate * stats.totalRequests
                            <= stats.totalGrants * 100
                      /\ (stats.successRate + 1) * stats.totalRequests
                            > stats.totalGrants * 100)
    /\ [][(lastCall' # lastCall /\ lastCall'.error # NoError)
            => UNCHANGED <<totalAccessRequests, totalAccessGrants,
                           totalAccessDenials>>]_vars

C28_Witness ==
    /\ getAccessStats.totalRequests = 2
    /\ getAccessStats.totalGrants = 1
    /\ getAccessStats.successRate = 50
    /\ revokedGrants # {}
    /\ lastCall.op = "requestAccess"
    /\ lastCall.error # NoError

\* what an evaluatePolicy run on the array app would decide and write now
Outcome(app, action) ==
    LET ev == evaluatePolicy(app, "bob", "device1", "lockset", action, <<>>,
                             now)
    IN  [result |-> ev.result, pol |-> ev.pol,
         matched |-> SeqToSet(ev.locals.matched)]

\* C29: in every state, evaluatePolicy returns the same decision and leaves
\* the same usage counters for every order of a set of candidate policies;
\* after a run the tracked highest Allow and Deny priorities are the maxima
\* over the matched Allow and Deny policies.
C29_OrderIndependent ==
    /\ \A S \in SUBSET {p \in PolicyIds : policyExists[p]}, action \in Actions :
          Cardinality({Outcome(app, action) : app \in Arrangements(S)}) = 1
    /\ lastCall.op = "evaluatePolicy"
          => /\ lastEval.hasAllowPolicy <=> MatchedOf("Allow") # {}
             /\ lastEval.hasDenyPolicy <=> MatchedOf("Deny") # {}
             /\ lastEval.hasAllowPolicy
                   => lastEval.highestAllowPriority
                          = HighestPriority(MatchedOf("Allow"))
             /\ lastEval.hasDenyPolicy
                   => lastEval.highestDenyPriority
                          = HighestPriority(MatchedOf("Deny"))

C29_Witness ==
    /\ lastCall.op = "evaluatePolicy"
    /\ Len(lastEval.matched) = 3
    /\ lastEval.applicable = <<"P2", "P3", "P1">>
    /\ policies["P1"].priority # policies["P2"].priority
    /\ policies["P1"].effect = policies["P2"].effect
    /\ policies["P3"].effect # policies["P1"].effect
    /\ lastEval.highestAllowPriority = 100
    /\ lastEval.highestDenyPriority = 50
    /\ policies["P1"].priority = 50
    /\ policies["P1"].effect = "Allow"

\* C30: request ids are handed out consecutively from the request counter, so
\* an accepted request gets an id no earlier request got; every grant record
\* belongs to exactly one request and no two requests share a grant id; an
\* accepted request leaves every existing grant record as it was, and no
\* step makes a revoked grant unrevoked.
C30_IdsUnique ==
    /\ [](/\ DOMAIN accessRequests = 0..(totalAccessRequests - 1)
          /\ \A r1, r2 \in DOMAIN accessRequests :
                 r1 # r2 => GrantIdOf(r1) # GrantIdOf(r2)
          /\ \A g \in DOMAIN accessGrants :
                 Cardinality({r \in DOMAIN accessRequests :
                                 GrantIdOf(r) = g}) = 1)
    /\ [][/\ (lastCall'.op = "requestAccess"
              /\ totalAccessRequests' # totalAccessRequests)
                => /\ totalAccessRequests' = totalAccessRequests + 1
                   /\ DOMAIN accessRequests'
                          = DOMAIN accessRequests \cup {totalAccessRequests}
                   /\ totalAccessRequests \notin DOMAIN accessRequests
                   /\ \A r \in DOMAIN accessRequests :
                          accessRequests'[r] = accessRequests[r]
                   /\ \A g \in DOMAIN accessGrants :
                          accessGrants'[g] = accessGrants[g]
                   /\ Cardinality(DOMAIN accessGrants')
                          <= Cardinality(DOMAIN accessGrants) + 1
           /\ \A g \in DOMAIN accessGrants :
                  /\ g \in DOMAIN accessGrants'
                  /\ accessGrants[g].isRevoked => accessGrants'[g].isRevoked]_vars

C30_Witness ==
    /\ DOMAIN accessRequests = {0, 1}
    /\ accessRequests[0].requester = accessRequests[1].requester
    /\ accessRequests[0].timestamp = accessRequests[1].timestamp
    /\ HasGrant(0)
    /\ HasGrant(1)
    /\ accessGrants[GrantIdOf(0)].isRevoked
    /\ ~accessGrants[GrantIdOf(1)].isRevoked
    /\ lastCall.op = "requestAccess"
    /\ lastCall.error = NoError

====
